---- MODULE Spec2Model ----
(***************************************************************************)
(* Model of src/sixty_seven_detector.py: the main loop of the 67 Detector. *)
(*                                                                         *)
(* One Tick is one iteration of `while True` (lines 322-504): read a       *)
(* frame, stabilise the wrist height, classify motion, apply the idle      *)
(* reset, run the popup scheduler and handle the key pressed.              *)
(*                                                                         *)
(* Units.  Time is counted in steps of 0.05 s and a wrist height in steps  *)
(* of 0.0025 (of the normalised range), so that every constant of lines    *)
(* 11-28 is a whole number: 0.5 s = 10, 1.5 s = 30, 5.0 s = 100,           *)
(* 0.1 s = 2, 0.0025 = 1.  The clock does not advance within an iteration: *)
(* the time.time() of lines 381 and 498 reads the `now` of line 336.       *)
(***************************************************************************)
EXTENDS Integers, Sequences, FiniteSets, TLC

\* ---------------------------------------------------------------- constants
MOVEMENT_THRESHOLD == 1
DIRECTION_CHANGE_TARGET == 4
NO_MOTION_TIMEOUT == 10
HAND_LOST_GRACE == 30
POPUP_DELAY_SECONDS == 100
POPUP_SHUFFLE_INTERVAL == 2
POPUP_NUM_WINDOWS == 20

\* Python's None for a height or a time (heights and times are >= 0)
None == -1

\* ------------------------------------------------------------------- bounds
\* wrist heights fed by the camera in the free-running specifications
MaxPos == 2
\* the clock is not advanced past this time in the free-running specification
MaxTime == 17
\* direction_changes is not driven past this count in the free-running one
MaxChanges == 6
\* the clock bound where frames are half a second apart or more
SlowTime == 45
\* frames delivered to the scheduler specification, and its bound on the count
SchedFrames == 9
SchedChanges == 6
\* frames delivered to the lost-hand specification
GapFrames == 7

Positions == 0..MaxPos

\* a hand waving between the two ends of the range, or resting at one of them
WavePositions == {0, MaxPos}

\* time between two readings of `now` (line 336): one step, exactly the idle
\* timeout, and one step more than the idle timeout
DtSet == {1, NO_MOTION_TIMEOUT, NO_MOTION_TIMEOUT + 1}

\* frames that are the idle timeout apart, or one step more
SlowDt == {NO_MOTION_TIMEOUT, NO_MOTION_TIMEOUT + 1}

\* the same, or a camera that stalls for the whole popup delay
StallDt == SlowDt \cup {POPUP_DELAY_SECONDS}

\* frames the idle timeout apart, or a camera that stalls for the grace window
\* or one step more
GapDt == {NO_MOTION_TIMEOUT, HAND_LOST_GRACE, HAND_LOST_GRACE + 1}

\* a scripted frame: the wrist height and the gaps the camera may take for it
Frame(h, gaps) == << h, gaps >>

\* section 8 of the specification: 0.5, 0.52, 0.48, 0.52, 0.48, 0.52
ExampleHeights == << 200, 208, 192, 208, 192, 208 >>

Example == [i \in 1..Len(ExampleHeights) |-> Frame(ExampleHeights[i], DtSet)]

\* the two ends between which the scripted hand waves
Lo == 0

Hi == MaxPos

\* four direction changes after a first motion from Lo, idle timeout apart
Wave == << Frame(Hi, {NO_MOTION_TIMEOUT}), Frame(Lo, {NO_MOTION_TIMEOUT}),
           Frame(Hi, {NO_MOTION_TIMEOUT}), Frame(Lo, {NO_MOTION_TIMEOUT}),
           Frame(Hi, {NO_MOTION_TIMEOUT}) >>

\* two 67 periods: the hand appears and waves until the mode is on; the camera
\* may then stall for the popup delay before the next direction change; the
\* hand rests until the mode is off; it waves again until the mode is on, the
\* camera stalls for about the popup delay, and fast frames follow
Tape ==
    << Frame(Lo, {NO_MOTION_TIMEOUT}) >> \o Wave
    \o << Frame(Lo, {NO_MOTION_TIMEOUT, POPUP_DELAY_SECONDS, POPUP_DELAY_SECONDS + 1}),
          Frame(Lo, {NO_MOTION_TIMEOUT + 1}) >>
    \o Wave
    \o << Frame(Lo, {POPUP_DELAY_SECONDS - 1, POPUP_DELAY_SECONDS, POPUP_DELAY_SECONDS + 1}),
          Frame(Hi, {1, NO_MOTION_TIMEOUT}),
          Frame(Lo, {1, POPUP_SHUFFLE_INTERVAL}) >>

Abs(x) == IF x < 0 THEN -x ELSE x

VARIABLES
    pc,                    \* "loop" while the main loop runs, "exited" after it
    frame_count,           \* lines 314 and 327
    now,                   \* line 336 (start-up time before the first tick)
    sample,                \* wrist height seen this tick, None when no hand
    avg_height,            \* lines 341-347
    key,                   \* line 486
    log,                   \* what this tick printed
    activations,           \* how many times "[core] 67 mode ON" was printed
    feed,                  \* frames the camera is still to deliver (scripted run)
    music_loaded,          \* line 283
    popup_gifs,            \* line 285: TRUE when at least one sequence loaded
    music_busy,            \* pygame.mixer.music.get_busy()
    last_height, last_direction, direction_changes,
    last_motion_time, last_seen_hands_time,
    last_dy, current_direction,
    party_mode, hud_visible,
    music_start_time, popup_active, popup_windows, popup_last_shuffle_time

vars == << pc, frame_count, now, sample, avg_height, key, log, activations, feed, music_loaded,
           popup_gifs, music_busy, last_height, last_direction, direction_changes,
           last_motion_time, last_seen_hands_time, last_dy, current_direction,
           party_mode, hud_visible, music_start_time, popup_active,
           popup_windows, popup_last_shuffle_time >>

\* the loop's variables as one record
St ==
    [ avg_height |-> avg_height, log |-> log, activations |-> activations,
      music_loaded |-> music_loaded, popup_gifs |-> popup_gifs,
      music_busy |-> music_busy,
      last_height |-> last_height, last_direction |-> last_direction,
      direction_changes |-> direction_changes,
      last_motion_time |-> last_motion_time,
      last_seen_hands_time |-> last_seen_hands_time,
      last_dy |-> last_dy, current_direction |-> current_direction,
      party_mode |-> party_mode, hud_visible |-> hud_visible,
      music_start_time |-> music_start_time, popup_active |-> popup_active,
      popup_windows |-> popup_windows,
      popup_last_shuffle_time |-> popup_last_shuffle_time ]

\* ------------------------------------------------------------ audio helpers
\* start_music (lines 88-91)
start_music(s) == [s EXCEPT !.music_busy = TRUE]

\* stop_music (lines 94-97)
stop_music(s) == [s EXCEPT !.music_busy = FALSE]

\* destroy_popup_windows (lines 212-220): the list is cleared in place
destroy_popup_windows(s) == [s EXCEPT !.popup_windows = 0]

\* create_popup_windows (lines 164-207)
create_popup_windows(gifs) == IF gifs THEN POPUP_NUM_WINDOWS ELSE 0

\* ------------------------------------------------------- position stabiliser
\* a grace window that excludes its boundary
StabilizerStrict(s, smp, t) ==
    LET seen == IF smp # None THEN t ELSE s.last_seen_hands_time
        avg  == IF smp # None
                THEN smp
                ELSE IF s.last_height # None /\ (t - seen) < HAND_LOST_GRACE
                     THEN s.last_height
                     ELSE None
    IN  [s EXCEPT !.last_seen_hands_time = seen, !.avg_height = avg, !.log = {}]

\* lines 338-347
Stabilizer(s, smp, t) ==
    LET seen == IF smp # None THEN t ELSE s.last_seen_hands_time
        avg  == IF smp # None
                THEN smp
                ELSE IF s.last_height # None /\ (t - seen) <= HAND_LOST_GRACE
                     THEN s.last_height
                     ELSE None
    IN  [s EXCEPT !.last_seen_hands_time = seen, !.avg_height = avg, !.log = {}]

\* -------------------------------------------------------------- classifier
\* line 365
DirectionOf(dy) == IF dy < 0 THEN "up" ELSE "down"

\* a movement threshold that counts a delta equal to the threshold as motion
IsMotionAtThreshold(dy) == Abs(dy) >= MOVEMENT_THRESHOLD

\* line 364
IsMotion(dy) == Abs(dy) > MOVEMENT_THRESHOLD

\* a reversal test that forgets that there may be no direction yet
IsReversalFromNone(s, dir) == dir # s.last_direction

\* line 368
IsReversal(s, dir) == s.last_direction # "None" /\ dir # s.last_direction

\* an activation that needs one direction change more than the target
ActivateLate(s, t) ==
    IF s.direction_changes > DIRECTION_CHANGE_TARGET /\ ~s.party_mode
    THEN LET on == [s EXCEPT !.party_mode = TRUE, !.log = @ \cup {"ON"},
                              !.activations = @ + 1]
         IN  IF on.music_loaded
             THEN [start_music(on) EXCEPT !.music_start_time = t]
             ELSE [on EXCEPT !.music_start_time = None]
    ELSE s

\* an activation one direction change short of the target
ActivateEarly(s, t) ==
    IF s.direction_changes >= DIRECTION_CHANGE_TARGET - 1 /\ ~s.party_mode
    THEN LET on == [s EXCEPT !.party_mode = TRUE, !.log = @ \cup {"ON"},
                              !.activations = @ + 1]
         IN  IF on.music_loaded
             THEN [start_music(on) EXCEPT !.music_start_time = t]
             ELSE [on EXCEPT !.music_start_time = None]
    ELSE s

\* lines 376-384: 67 mode goes on
Activate(s, t) ==
    IF s.direction_changes >= DIRECTION_CHANGE_TARGET /\ ~s.party_mode
    THEN LET on == [s EXCEPT !.party_mode = TRUE, !.log = @ \cup {"ON"},
                              !.activations = @ + 1]
         IN  IF on.music_loaded
             THEN [start_music(on) EXCEPT !.music_start_time = t]
             ELSE [on EXCEPT !.music_start_time = None]
    ELSE s

\* a direction change that is counted twice
CountChangeTwice(s, t) ==
    [s EXCEPT !.direction_changes = @ + 2,
              !.last_motion_time = t,
              !.log = @ \cup {"change"}]

\* a counted direction change that does not restart the idle timer
CountChangeNoStamp(s, t) ==
    [s EXCEPT !.direction_changes = @ + 1,
              !.log = @ \cup {"change"}]

\* lines 368-374: a direction change is counted
CountChange(s, t) ==
    [s EXCEPT !.direction_changes = @ + 1,
              !.last_motion_time = t,
              !.log = @ \cup {"change"}]

\* lines 364-386
Motion(s, dy, t) ==
    LET dir == DirectionOf(dy)
        s1  == [s EXCEPT !.current_direction = dir, !.hud_visible = TRUE]
        s2  == IF IsReversal(s1, dir) THEN Activate(CountChange(s1, t), t) ELSE s1
    IN  [s2 EXCEPT !.last_direction = dir]

\* a classifier that forgets the last height when the position is unknown
ClassifierForgets(s, t) ==
    IF s.avg_height # None
    THEN LET s1 == IF s.last_height # None
                   THEN LET dy == s.avg_height - s.last_height
                            d  == [s EXCEPT !.last_dy = dy]
                        IN  IF IsMotion(dy) THEN Motion(d, dy, t) ELSE d
                   ELSE s
         IN  [s1 EXCEPT !.last_height = s.avg_height]
    ELSE [s EXCEPT !.last_height = None]

\* a classifier that records last_dy only for a delta above the threshold
ClassifierKeepsDy(s, t) ==
    IF s.avg_height # None
    THEN LET s1 == IF s.last_height # None
                   THEN LET dy == s.avg_height - s.last_height
                        IN  IF IsMotion(dy)
                            THEN Motion([s EXCEPT !.last_dy = dy], dy, t)
                            ELSE s
                   ELSE s
         IN  [s1 EXCEPT !.last_height = s.avg_height]
    ELSE s

\* lines 359-388
Classifier(s, t) ==
    IF s.avg_height # None
    THEN LET s1 == IF s.last_height # None
                   THEN LET dy == s.avg_height - s.last_height
                            d  == [s EXCEPT !.last_dy = dy]
                        IN  IF IsMotion(dy) THEN Motion(d, dy, t) ELSE d
                   ELSE s
         IN  [s1 EXCEPT !.last_height = s.avg_height]
    ELSE s

\* -------------------------------------------------------------- idle reset
\* line 390
IdleTime(s, t) == t - s.last_motion_time

\* an idle test that fires on the timeout itself
IdleExpiredEarly(s, t) == IdleTime(s, t) >= NO_MOTION_TIMEOUT

\* line 391
IdleExpired(s, t) == IdleTime(s, t) > NO_MOTION_TIMEOUT

\* lines 392-396
ModeOff(s) ==
    IF s.party_mode
    THEN LET off == [s EXCEPT !.party_mode = FALSE, !.log = @ \cup {"OFF"}]
         IN  IF off.music_loaded THEN stop_music(off) ELSE off
    ELSE s

\* an idle reset that leaves music_start_time behind
IdleResetLeak(s, t) ==
    IF IdleExpired(s, t)
    THEN LET s1 == ModeOff(s)
             s2 == IF s1.direction_changes # 0
                   THEN [s1 EXCEPT !.log = @ \cup {"reset"}]
                   ELSE s1
         IN  destroy_popup_windows(
               [s2 EXCEPT !.direction_changes = 0,
                          !.last_direction = "None",
                          !.current_direction = "none",
                          !.last_dy = 0,
                          !.last_motion_time = t,
                          !.hud_visible = FALSE,
                          !.popup_active = FALSE])
    ELSE s

\* an idle reset that leaves direction_changes as it is
IdleResetKeepCount(s, t) ==
    IF IdleExpired(s, t)
    THEN LET s1 == ModeOff(s)
             s2 == IF s1.direction_changes # 0
                   THEN [s1 EXCEPT !.log = @ \cup {"reset"}]
                   ELSE s1
         IN  destroy_popup_windows(
               [s2 EXCEPT !.last_direction = "None",
                          !.current_direction = "none",
                          !.last_dy = 0,
                          !.last_motion_time = t,
                          !.hud_visible = FALSE,
                          !.popup_active = FALSE,
                          !.music_start_time = None])
    ELSE s

\* lines 390-410
IdleReset(s, t) ==
    IF IdleExpired(s, t)
    THEN LET s1 == ModeOff(s)
             s2 == IF s1.direction_changes # 0
                   THEN [s1 EXCEPT !.log = @ \cup {"reset"}]
                   ELSE s1
         IN  destroy_popup_windows(
               [s2 EXCEPT !.direction_changes = 0,
                          !.last_direction = "None",
                          !.current_direction = "none",
                          !.last_dy = 0,
                          !.last_motion_time = t,
                          !.hud_visible = FALSE,
                          !.popup_active = FALSE,
                          !.music_start_time = None])
    ELSE s

\* --------------------------------------------------------- popup scheduler
\* a popup delay that must be exceeded
PopupDueLate(s, t) == (t - s.music_start_time) > POPUP_DELAY_SECONDS /\ ~s.popup_active

\* line 464
PopupDue(s, t) == (t - s.music_start_time) >= POPUP_DELAY_SECONDS /\ ~s.popup_active

\* a popup start that does not look at the mode
PopupStartAnyMode(s, t) ==
    IF s.music_start_time # None /\ s.popup_gifs /\ PopupDue(s, t)
    THEN [s EXCEPT !.popup_active = TRUE,
                   !.popup_last_shuffle_time = t,
                   !.popup_windows = create_popup_windows(s.popup_gifs),
                   !.log = @ \cup {"popups"}]
    ELSE s

\* lines 462-468
PopupStart(s, t) ==
    IF s.party_mode /\ s.music_start_time # None /\ s.popup_gifs /\ PopupDue(s, t)
    THEN [s EXCEPT !.popup_active = TRUE,
                   !.popup_last_shuffle_time = t,
                   !.popup_windows = create_popup_windows(s.popup_gifs),
                   !.log = @ \cup {"popups"}]
    ELSE s

\* a shuffle interval that must be exceeded
ShuffleDueLate(s, t) == (t - s.popup_last_shuffle_time) > POPUP_SHUFFLE_INTERVAL

\* line 480
ShuffleDue(s, t) == (t - s.popup_last_shuffle_time) >= POPUP_SHUFFLE_INTERVAL

\* lines 470-482
PopupShuffle(s, t) ==
    IF s.popup_active /\ s.popup_windows # 0 /\ ShuffleDue(s, t)
    THEN [s EXCEPT !.popup_last_shuffle_time = t, !.log = @ \cup {"shuffle"}]
    ELSE s

\* lines 462-482
Scheduler(s, t) == PopupShuffle(PopupStart(s, t), t)

\* ------------------------------------------------------------- key handler
\* lines 489-494
ToggleOff(s) ==
    destroy_popup_windows(
      [stop_music(s) EXCEPT !.music_start_time = None,
                            !.popup_active = FALSE])

\* lines 495-500
ToggleOn(s, t) ==
    destroy_popup_windows(
      [start_music(s) EXCEPT !.music_start_time = t,
                             !.popup_active = FALSE])

\* an m key that overrides the mode and clears the count of direction changes
KeyHandlerOverride(s, k, t) ==
    IF k = "m" /\ s.music_loaded
    THEN LET r == [s EXCEPT !.party_mode = ~@, !.direction_changes = 0]
         IN  IF s.music_busy THEN ToggleOff(r) ELSE ToggleOn(r, t)
    ELSE s

\* an m key that also clears the count of direction changes
KeyHandlerClearing(s, k, t) ==
    IF k = "m" /\ s.music_loaded
    THEN LET r == [s EXCEPT !.direction_changes = 0]
         IN  IF s.music_busy THEN ToggleOff(r) ELSE ToggleOn(r, t)
    ELSE s

\* lines 488-500
KeyHandler(s, k, t) ==
    IF k = "m" /\ s.music_loaded
    THEN IF s.music_busy THEN ToggleOff(s) ELSE ToggleOn(s, t)
    ELSE s

\* ------------------------------------------------------- one loop iteration
\* the state after the classifier step of a tick with this sample at time t
Classified(s, smp, t) == Classifier(Stabilizer(s, smp, t), t)

\* the state after the idle check of that tick
Idled(s, smp, t) == IdleReset(Classified(s, smp, t), t)

\* the state after the popup scheduler of that tick
Scheduled(s, smp, t) == Scheduler(Idled(s, smp, t), t)

\* lines 322-500
Iteration(s, smp, t, k) == KeyHandler(Scheduled(s, smp, t), k, t)

\* lines 506-511: leaving the loop
Cleanup(s) ==
    destroy_popup_windows(IF s.music_loaded THEN stop_music(s) ELSE s)

Assign(s) ==
    /\ avg_height' = s.avg_height
    /\ log' = s.log
    /\ activations' = s.activations
    /\ music_loaded' = s.music_loaded
    /\ popup_gifs' = s.popup_gifs
    /\ music_busy' = s.music_busy
    /\ last_height' = s.last_height
    /\ last_direction' = s.last_direction
    /\ direction_changes' = s.direction_changes
    /\ last_motion_time' = s.last_motion_time
    /\ last_seen_hands_time' = s.last_seen_hands_time
    /\ last_dy' = s.last_dy
    /\ current_direction' = s.current_direction
    /\ party_mode' = s.party_mode
    /\ hud_visible' = s.hud_visible
    /\ music_start_time' = s.music_start_time
    /\ popup_active' = s.popup_active
    /\ popup_windows' = s.popup_windows
    /\ popup_last_shuffle_time' = s.popup_last_shuffle_time

\* one iteration of the loop (lines 322-500) on a frame taken dt after the
\* previous one, with key k pressed; direction_changes is kept within cap
Step(smp, dt, k, cap) ==
    /\ pc = "loop"
    /\ frame_count' = frame_count + 1
    /\ LET s == Iteration(St, smp, now + dt, k)
       IN  /\ s.direction_changes <= cap
           /\ Assign(s)
    /\ now' = now + dt
    /\ sample' = smp
    /\ key' = k

\* the camera delivers any frame, no key is pressed
Tick ==
    /\ \E smp \in Positions \cup {None}, dt \in DtSet :
          /\ now + dt <= MaxTime
          /\ Step(smp, dt, "none", MaxChanges)
    /\ UNCHANGED << pc, feed >>

\* the same with frames half a second apart or more
TickSlow ==
    /\ \E smp \in Positions \cup {None}, dt \in SlowDt :
          /\ now + dt <= SlowTime
          /\ Step(smp, dt, "none", MaxChanges)
    /\ UNCHANGED << pc, feed >>

\* a waving hand in front of a slow camera, with or without the m key
TickWave ==
    /\ frame_count < SchedFrames
    /\ \E smp \in WavePositions, dt \in StallDt, k \in {"none", "m"} :
          Step(smp, dt, k, SchedChanges)
    /\ UNCHANGED << pc, feed >>

\* a hand that may leave the picture, in front of a slow or stalling camera
TickGap ==
    /\ frame_count < GapFrames
    /\ \E smp \in Positions \cup {None}, dt \in GapDt :
          Step(smp, dt, "none", GapFrames)
    /\ UNCHANGED << pc, feed >>

\* the camera delivers the next frame of the script; no idle reset happens
TickFeed ==
    /\ feed # << >>
    /\ \E dt \in Head(feed)[2] :
          /\ ~IdleExpired(Classified(St, Head(feed)[1], now + dt), now + dt)
          /\ Step(Head(feed)[1], dt, "none", Len(Example))
    /\ feed' = Tail(feed)
    /\ UNCHANGED pc

\* the camera delivers the next frame of the script, with or without the m key
TickTape ==
    /\ feed # << >>
    /\ \E dt \in Head(feed)[2], k \in {"none", "m"} :
          Step(Head(feed)[1], dt, k, Len(Tape))
    /\ feed' = Tail(feed)
    /\ UNCHANGED pc

\* an iteration in which q is pressed (lines 502-504), then lines 506-511
TickQuit ==
    /\ pc = "loop"
    /\ \E smp \in Positions \cup {None}, dt \in SlowDt :
          /\ now + dt <= SlowTime
          /\ Assign(Cleanup(Iteration(St, smp, now + dt, "q")))
          /\ now' = now + dt
          /\ frame_count' = frame_count + 1
          /\ sample' = smp
          /\ key' = "q"
    /\ pc' = "exited"
    /\ UNCHANGED feed

\* cap.read() fails (lines 323-325), then lines 506-511
ReadFail ==
    /\ pc = "loop"
    /\ Assign(Cleanup(St))
    /\ pc' = "exited"
    /\ UNCHANGED << frame_count, now, sample, key, feed >>

\* lines 303-320, with the camera opened (line 300)
InitLoop ==
    /\ pc = "loop"
    /\ frame_count = 0
    /\ now = 0
    /\ sample = None
    /\ avg_height = None
    /\ key = "none"
    /\ log = {}
    /\ activations = 0
    /\ music_loaded \in BOOLEAN
    /\ popup_gifs \in BOOLEAN
    /\ music_busy = FALSE
    /\ last_height = None
    /\ last_direction = "None"
    /\ direction_changes = 0
    /\ last_motion_time = 0
    /\ last_seen_hands_time = 0
    /\ last_dy = 0
    /\ current_direction = "none"
    /\ party_mode = FALSE
    /\ hud_visible = FALSE
    /\ music_start_time = None
    /\ popup_active = FALSE
    /\ popup_windows = 0
    /\ popup_last_shuffle_time = 0

Init == InitLoop /\ feed = << >>

InitEx == InitLoop /\ feed = Example

\* free-running camera, fine clock
Next == Tick

Spec == Init /\ [][Next]_vars

\* slow camera, which may fail, and the q key
NextSlow == TickSlow \/ TickQuit \/ ReadFail

SpecSlow == Init /\ [][NextSlow]_vars

\* the scripted frames of the reversal-counting example
NextEx == TickFeed

SpecEx == InitEx /\ [][NextEx]_vars

\* waving hand, slow or stalling camera, m key
NextSched == TickWave

SpecSched == Init /\ [][NextSched]_vars

\* the scripted frames of two 67 periods, m key
InitTape == InitLoop /\ feed = Tape

NextTape == TickTape

SpecTape == InitTape /\ [][NextTape]_vars

\* a hand that comes and goes, slow or stalling camera
NextGap == TickGap

SpecGap == Init /\ [][NextGap]_vars

\* ------------------------------------------------------------------ claims
\* a step of the loop that processed a frame
IsTick == frame_count' = frame_count + 1

\* last_motion_time as the idle check of this tick reads it (line 390)
MotionStamp == IF "change" \in log' THEN now' ELSE last_motion_time

\* the delta of this tick is defined and is above the threshold
MotionTick ==
    /\ avg_height' # None
    /\ last_height # None
    /\ Abs(avg_height' - last_height) > MOVEMENT_THRESHOLD

\* the delta of this tick is defined and is not above the threshold
NoiseTick ==
    /\ avg_height' # None
    /\ last_height # None
    /\ Abs(avg_height' - last_height) <= MOVEMENT_THRESHOLD

\* C1: the mode goes INACTIVE -> ACTIVE on a tick exactly when it was INACTIVE
\* at the start of the tick and direction_changes is at least
\* DIRECTION_CHANGE_TARGET after the classifier step of that tick; no tick
\* activates with fewer counted changes, and a tick that starts ACTIVE prints
\* no new "67 mode ON".
C1_ActivationIff ==
    [][ IsTick =>
          LET mid == Classified(St, sample', now')
          IN  /\ (~party_mode /\ party_mode')
                   <=> (~party_mode /\ mid.direction_changes >= DIRECTION_CHANGE_TARGET)
              /\ ("ON" \in log') <=> (~party_mode /\ party_mode')
              /\ ("ON" \in log' => /\ mid.direction_changes >= DIRECTION_CHANGE_TARGET
                                   /\ direction_changes' >= DIRECTION_CHANGE_TARGET)
              /\ (party_mode => "ON" \notin log') ]_vars

C1_Witness ==
    /\ "ON" \in log
    /\ party_mode
    /\ direction_changes = DIRECTION_CHANGE_TARGET

\* C2: every tick whose delta is above MOVEMENT_THRESHOLD, reversal or not,
\* sets last_motion_time to now; hence while ACTIVE an above-threshold tick
\* that follows an above-threshold tick in the same direction within
\* NO_MOTION_TIMEOUT never turns the mode off.
C2_MotionDrivesIdleTimer ==
    [][ IsTick /\ MotionTick =>
          /\ Classified(St, sample', now').last_motion_time = now'
          /\ ( /\ party_mode
               /\ avg_height # None
               /\ Abs(last_dy) > MOVEMENT_THRESHOLD
               /\ last_direction = DirectionOf(avg_height' - last_height)
               /\ now' - now <= NO_MOTION_TIMEOUT
               => party_mode' ) ]_vars

C5_NoiseRejection ==
    [][ IsTick /\ NoiseTick =>
          LET mid == Classified(St, sample', now')
          IN  /\ mid.last_direction = last_direction
              /\ mid.direction_changes = direction_changes
              /\ mid.party_mode = party_mode
              /\ "change" \notin log'
              /\ "ON" \notin log'
              /\ last_direction' \in {last_direction, "None"}
              /\ direction_changes' \in {direction_changes, 0}
              /\ ( now' - last_motion_time <= NO_MOTION_TIMEOUT
                   => /\ last_direction' = last_direction
                      /\ direction_changes' = direction_changes
                      /\ party_mode' = party_mode ) ]_vars

\* a delta equal to the threshold, against the last direction, left things alone
C5_Witness ==
    /\ avg_height # None
    /\ last_dy = MOVEMENT_THRESHOLD
    /\ last_direction = "up"
    /\ direction_changes > 0
    /\ log = {}

\* C6: with a sample present the stabilised height is the sample and
\* last_seen_hands_time becomes now; with the sample absent it is the previous
\* height when there is one and now - last_seen_hands_time is at most
\* HAND_LOST_GRACE (the boundary included), and unknown otherwise; so unknown
\* is reported only when no hand was seen within the last HAND_LOST_GRACE
\* (hand at 0, none after: held 1.0 s later, unknown 1.6 s later).
C6_GraceWindow ==
    [][ IsTick =>
          /\ ( sample' # None
               => /\ avg_height' = sample'
                  /\ last_seen_hands_time' = now' )
          /\ ( sample' = None
               => /\ last_seen_hands_time' = last_seen_hands_time
                  /\ avg_height' =
                       IF /\ last_height # None
                          /\ now' - last_seen_hands_time <= HAND_LOST_GRACE
                       THEN last_height
                       ELSE None )
          /\ ( avg_height' = None
               => \/ last_height = None
                  \/ now' - last_seen_hands_time' > HAND_LOST_GRACE )
          /\ ( /\ sample' = None
               /\ last_height # None
               /\ now' - last_seen_hands_time = 20
               => avg_height' = last_height )
          /\ ( /\ sample' = None
               /\ now' - last_seen_hands_time = 32
               => avg_height' = None ) ]_vars

\* a height held on the last instant of the grace window
C6_Witness ==
    /\ sample = None
    /\ avg_height # None
    /\ now - last_seen_hands_time = HAND_LOST_GRACE

\* C4 as stated: feeding 0.5, 0.52, 0.48, 0.52, 0.48, 0.52 with no idle reset
\* in between, direction_changes reaches 4 after the 5th sample and the mode
\* goes on exactly once, on that tick.
C4_Original ==
    /\ (Len(feed) = 1 => direction_changes = DIRECTION_CHANGE_TARGET /\ party_mode)
    /\ (party_mode => Len(feed) <= 1)
    /\ ("ON" \in log <=> Len(feed) = 1)

\* C4 amended: feeding 0.5, 0.52, 0.48, 0.52, 0.48, 0.52 with no idle reset in
\* between, direction_changes is 3 after the 5th sample and reaches 4 after the
\* 6th, and the mode goes on exactly once, on the tick of the 6th sample.
C4_ExampleSixthSample ==
    /\ (Len(feed) = 1 => direction_changes = DIRECTION_CHANGE_TARGET - 1 /\ ~party_mode)
    /\ (feed = << >> => direction_changes = DIRECTION_CHANGE_TARGET /\ party_mode)
    /\ (party_mode <=> feed = << >>)
    /\ ("ON" \in log <=> feed = << >>)
    /\ activations = (IF feed = << >> THEN 1 ELSE 0)
    /\ direction_changes <= DIRECTION_CHANGE_TARGET

C4_Witness ==
    /\ feed = << >>
    /\ frame_count = Len(ExampleHeights)
    /\ party_mode
    /\ direction_changes = DIRECTION_CHANGE_TARGET

\* C7 as stated: an m key received while INACTIVE puts the mode in ACTIVE and
\* one received while ACTIVE puts it in INACTIVE, and it clears
\* direction_changes to 0.
C7_Original ==
    [][ IsTick /\ key' = "m" /\ music_loaded =>
          /\ party_mode' = ~Scheduled(St, sample', now').party_mode
          /\ direction_changes' = 0 ]_vars

\* C7 amended: an m key changes neither the mode nor direction_changes; with
\* music loaded it toggles the music and clears the popup scheduler
\* (popup_active false, windows closed, music_start_time None when the music
\* is stopped and now when it is started); with no music loaded it does
\* nothing.
C7_ToggleIsAudioOnly ==
    [][ IsTick /\ key' = "m" =>
          LET pre == Scheduled(St, sample', now')
          IN  /\ party_mode' = pre.party_mode
              /\ direction_changes' = pre.direction_changes
              /\ last_direction' = pre.last_direction
              /\ ( music_loaded
                   => /\ ~popup_active'
                      /\ popup_windows' = 0
                      /\ music_busy' = ~pre.music_busy
                      /\ music_start_time' = (IF pre.music_busy THEN None ELSE now') )
              /\ ( ~music_loaded
                   => /\ popup_active' = pre.popup_active
                      /\ music_busy' = pre.music_busy
                      /\ music_start_time' = pre.music_start_time ) ]_vars

\* the music was toggled off in 67 mode, which is still on with its count
C7_Witness ==
    /\ key = "m"
    /\ party_mode
    /\ "ON" \notin log
    /\ ~music_busy
    /\ music_start_time = None
    /\ direction_changes >= DIRECTION_CHANGE_TARGET

\* C8 as stated: two m keys on consecutive ticks, starting ACTIVE, leave
\* direction_changes = 0 and the scheduler cleared.
C8_Original ==
    [][ IsTick /\ key = "m" /\ key' = "m" /\ music_loaded
              /\ party_mode /\ "ON" \notin log =>
          /\ direction_changes' = 0
          /\ ~popup_active'
          /\ music_start_time' \in {None, now'} ]_vars

\* C8 amended: two m keys on consecutive ticks of one ACTIVE period leave the
\* scheduler cleared (popups not active, windows closed, music_start_time
\* None or the time of the second key, the music playing as before the first
\* key), but the mode stays ACTIVE and direction_changes is not cleared: it
\* stays at or above DIRECTION_CHANGE_TARGET.
C8_DoubleToggle ==
    [][ IsTick /\ key = "m" /\ key' = "m" /\ music_loaded
              /\ party_mode /\ "ON" \notin log /\ party_mode' =>
          /\ ~popup_active'
          /\ popup_windows' = 0
          /\ music_start_time' = (IF music_busy THEN None ELSE now')
          /\ music_busy' = ~music_busy
          /\ direction_changes' >= direction_changes
          /\ direction_changes' >= DIRECTION_CHANGE_TARGET ]_vars

\* popups had started in this ACTIVE period; the music is back on after m keys
C8_Witness ==
    /\ key = "m"
    /\ party_mode
    /\ "ON" \notin log
    /\ activations = 1
    /\ popup_last_shuffle_time > 0
    /\ ~popup_active
    /\ music_busy
    /\ music_start_time = now
    /\ direction_changes > DIRECTION_CHANGE_TARGET

\* C9: within one ACTIVE period, with music loaded and popup images present
\* and no m key on the tick, the popups start on the first tick where
\* now - music_start_time >= POPUP_DELAY_SECONDS: never on a tick where it is
\* less, never a second time while they are active, and by the end of every
\* tick where it is at least the delay they are active.
C9_PopupStartOnce ==
    [][ IsTick /\ music_loaded /\ popup_gifs =>
          /\ ( "popups" \in log'
               => /\ party_mode'
                  /\ ~popup_active
                  /\ music_start_time # None
                  /\ now' - music_start_time >= POPUP_DELAY_SECONDS
                  /\ now - music_start_time < POPUP_DELAY_SECONDS )
          /\ ( party_mode' /\ key' # "m" /\ music_start_time' # None
               => (popup_active' <=> now' - music_start_time' >= POPUP_DELAY_SECONDS) )
          /\ ( popup_active /\ party_mode' /\ key' # "m"
               => popup_active' /\ "popups" \notin log' ) ]_vars

\* popups started on the very tick the delay was reached
C9_Witness ==
    /\ "popups" \in log
    /\ popup_active
    /\ party_mode
    /\ now - music_start_time = POPUP_DELAY_SECONDS

IdleTick == now' - MotionStamp > NO_MOTION_TIMEOUT

\* C11: a tick prints a shuffle exactly when the popups are active when the
\* scheduler runs (active before the tick and not stopped by its idle reset;
\* popups started on this tick have popup_last_shuffle_time = now) and
\* now - popup_last_shuffle_time >= POPUP_SHUFFLE_INTERVAL, and then
\* popup_last_shuffle_time = now; so no shuffle before the popups started,
\* none on the tick they start, and two successive shuffles are at least
\* POPUP_SHUFFLE_INTERVAL apart.
C11_ShuffleScheduling ==
    [][ IsTick =>
          /\ ("shuffle" \in log')
               <=> /\ popup_active
                   /\ ~IdleTick
                   /\ now' - popup_last_shuffle_time >= POPUP_SHUFFLE_INTERVAL
          /\ ( "shuffle" \in log'
               => /\ popup_last_shuffle_time' = now'
                  /\ popup_last_shuffle_time > 0
                  /\ "popups" \notin log' )
          /\ ( "popups" \in log'
               => /\ "shuffle" \notin log'
                  /\ popup_last_shuffle_time' = now' )
          /\ ( "shuffle" \notin log' /\ "popups" \notin log'
               => popup_last_shuffle_time' = popup_last_shuffle_time ) ]_vars

\* a shuffle exactly one shuffle interval after the popups started
C11_Witness ==
    /\ "shuffle" \in log
    /\ popup_active
    /\ popup_last_shuffle_time = now
    /\ now - music_start_time = POPUP_DELAY_SECONDS + POPUP_SHUFFLE_INTERVAL

\* C12: direction_changes grows by at most 1 per tick; it grows only on a tick
\* whose delta is above MOVEMENT_THRESHOLD and whose direction differs from a
\* last_direction that is set; a tick that starts with no last_direction
\* (initial state, or after an idle reset) counts no change.
C12_OneReversalPerTick ==
    [][ IsTick =>
          LET mid == Classified(St, sample', now')
          IN  /\ direction_changes' <= direction_changes + 1
              /\ mid.direction_changes \in {direction_changes, direction_changes + 1}
              /\ ("change" \in log') <=> (mid.direction_changes = direction_changes + 1)
              /\ ( direction_changes' > direction_changes \/ "change" \in log'
                   => /\ MotionTick
                      /\ last_direction # "None"
                      /\ DirectionOf(avg_height' - last_height) # last_direction
                      /\ direction_changes' = direction_changes + 1 )
              /\ ( last_direction = "None"
                   => /\ "change" \notin log'
                      /\ direction_changes' <= direction_changes ) ]_vars

\* the first motion after an idle reset set the direction and counted nothing
C12_Witness ==
    /\ last_motion_time > 0
    /\ direction_changes = 0
    /\ last_direction # "None"
    /\ Abs(last_dy) > MOVEMENT_THRESHOLD
    /\ log = {}

C14_UnknownPosition ==
    [][ IsTick /\ avg_height' = None =>
          LET mid == Classified(St, sample', now')
          IN  /\ sample' = None
              /\ (last_height = None \/ now' - last_seen_hands_time > HAND_LOST_GRACE)
              /\ mid.last_height = last_height
              /\ mid.last_direction = last_direction
              /\ mid.direction_changes = direction_changes
              /\ mid.last_dy = last_dy
              /\ mid.last_motion_time = last_motion_time
              /\ mid.party_mode = party_mode
              /\ "change" \notin log'
              /\ "ON" \notin log'
              /\ last_height' = last_height
              /\ IF now' - last_motion_time > NO_MOTION_TIMEOUT
                 THEN /\ direction_changes' = 0
                      /\ last_direction' = "None"
                      /\ last_dy' = 0
                      /\ ~party_mode'
                 ELSE /\ direction_changes' = direction_changes
                      /\ last_direction' = last_direction
                      /\ last_dy' = last_dy
                      /\ party_mode' = party_mode ]_vars

\* the hand was lost in 67 mode; the tick that found the position unknown
\* kept the last height, and its idle reset turned the mode off
C14_Witness ==
    /\ sample = None
    /\ avg_height = None
    /\ last_height # None
    /\ "OFF" \in log
    /\ "reset" \in log
    /\ direction_changes = 0

\* C15 as stated: on a tick whose delta is at most MOVEMENT_THRESHOLD in
\* absolute value, last_dy keeps the value it had before the tick (unless the
\* idle reset of that tick sets it to 0).
C15_Original ==
    [][ IsTick /\ NoiseTick =>
          \/ last_dy' = last_dy
          \/ IdleTick /\ last_dy' = 0 ]_vars

\* C15 amended: every tick on which the height and the last height are both
\* known records its delta in last_dy, above the threshold or not, so a delta
\* of at most MOVEMENT_THRESHOLD overwrites the last above-threshold delta; a
\* tick without both keeps last_dy; the idle reset of the tick then sets it
\* to 0.
C15_EveryDeltaRecorded ==
    [][ IsTick =>
          LET mid   == Classified(St, sample', now')
              known == avg_height' # None /\ last_height # None
          IN  /\ mid.last_dy = (IF known THEN avg_height' - last_height ELSE last_dy)
              /\ last_dy' = (IF IdleTick THEN 0 ELSE mid.last_dy)
              /\ ( NoiseTick /\ ~IdleTick
                   => /\ last_dy' = avg_height' - last_height
                      /\ Abs(last_dy') <= MOVEMENT_THRESHOLD ) ]_vars

\* a direction is recorded, so a delta above the threshold was seen since the
\* last idle reset, and last_dy holds a later delta equal to the threshold
C15_Witness ==
    /\ sample # None
    /\ current_direction = "down"
    /\ last_dy = -MOVEMENT_THRESHOLD
    /\ last_motion_time < now

\* C16: a change that adds to a count that is not 0 is counted no more than
\* NO_MOTION_TIMEOUT after the previous counted change (whose time is
\* last_motion_time), whatever the spacing of the ticks; in particular the
\* change that turns the mode on.
C16_ConsecutiveReversals ==
    [][ IsTick =>
          /\ ( "ON" \in log'
               => now' - last_motion_time <= NO_MOTION_TIMEOUT )
          /\ ( "change" \in log' /\ direction_changes > 0
               => now' - last_motion_time <= NO_MOTION_TIMEOUT ) ]_vars

\* C17: at the end of every tick the mode is ACTIVE exactly when
\* direction_changes >= DIRECTION_CHANGE_TARGET: INACTIVE never goes with a
\* count at or above the target, ACTIVE never with a count below it.
C17_ModeIffCount ==
    /\ direction_changes \in Nat
    /\ party_mode <=> direction_changes >= DIRECTION_CHANGE_TARGET

\* 67 mode is on and a further change was counted beyond the target
C17_Witness ==
    /\ party_mode
    /\ "change" \in log
    /\ "ON" \notin log
    /\ direction_changes = DIRECTION_CHANGE_TARGET + 1

\* C18: in every state reached by waving, idle timeouts and m keys, if the
\* popups are active then 67 mode is on and music_start_time is set; the
\* popups are never active while the mode is off.
C18_PopupsOnlyInMode ==
    /\ popup_active => party_mode /\ music_start_time # None
    /\ ~party_mode => ~popup_active
    /\ (pc = "loop" /\ popup_active => popup_windows = POPUP_NUM_WINDOWS)

\* the popups are active and shuffling while the hand goes on waving
C18_Witness ==
    /\ popup_active
    /\ party_mode
    /\ music_start_time # None
    /\ "shuffle" \in log
    /\ "change" \in log

\* C19: a tick that counts a direction change never performs the idle reset:
\* it ends with the count one higher, the direction set, last_motion_time =
\* now and the mode not turned off; no tick prints both "67 mode ON" and
\* "67 mode OFF", and the tick that turns the mode on ends ACTIVE with the
\* count at the target; so the mode changes at most once per tick.
C19_OneModeChangePerTick ==
    [][ IsTick =>
          /\ ( "change" \in log'
               => /\ "OFF" \notin log'
                  /\ "reset" \notin log'
                  /\ direction_changes' = direction_changes + 1
                  /\ last_direction' # "None"
                  /\ last_motion_time' = now'
                  /\ (party_mode => party_mode') )
          /\ ~("ON" \in log' /\ "OFF" \in log')
          /\ ( "ON" \in log'
               => /\ party_mode'
                  /\ direction_changes' >= DIRECTION_CHANGE_TARGET )
          /\ ( "OFF" \in log' => party_mode /\ ~party_mode' /\ "change" \notin log' ) ]_vars

\* the tick that turned the mode on kept the count that turned it on
C19_Witness ==
    /\ "ON" \in log
    /\ "change" \in log
    /\ "OFF" \notin log
    /\ "reset" \notin log
    /\ party_mode
    /\ last_motion_time = now
    /\ direction_changes = DIRECTION_CHANGE_TARGET

====
